---- MODULE Spec2Model ----
(***************************************************************************)
(* A model of AudioTimeLattice (src/Source/AudioTimeLattice.{h,cpp}): the  *)
(* tempo map, PPQN, sample rate and markers of one lattice object, its     *)
(* setters, and the time-domain conversions, grid generators, time, value  *)
(* and breakpoint quantizers, buffer edits and transient detection         *)
(* computed from that state.                                               *)
(*                                                                         *)
(* C++ doubles are modelled as exact rationals [n |-> num, d |-> den] in   *)
(* lowest terms with d > 0.  A division by zero yields, as IEEE-754 does,  *)
(* a non-finite value, written with d = 0: n = 1 is +inf, n = -1 is -inf   *)
(* and n = 0 is NaN.                                                       *)
(***************************************************************************)
EXTENDS Integers, Sequences, FiniteSets, TLC

VARIABLES ppqn, sampleRate, tempoMap, markers, nextMarkerId, call

vars == <<ppqn, sampleRate, tempoMap, markers, nextMarkerId, call>>

----------------------------------------------------------------------------
(* Rational arithmetic standing for double arithmetic.                     *)

Abs(x) == IF x < 0 THEN -x ELSE x

Sign(x) == IF x < 0 THEN -1 ELSE IF x > 0 THEN 1 ELSE 0

RECURSIVE GCD(_, _)
GCD(a, b) == IF b = 0 THEN a ELSE GCD(b, a % b)

Q(n, d) ==
    IF d = 0 THEN [n |-> Sign(n), d |-> 0]
    ELSE LET g == GCD(Abs(n), Abs(d))
             s == IF d < 0 THEN -1 ELSE 1
         IN  [n |-> (s * n) \div g, d |-> (s * d) \div g]

R(i) == [n |-> i, d |-> 1]

NaN == [n |-> 0, d |-> 0]

RNeg(a) == [n |-> -a.n, d |-> a.d]

RAdd(a, b) ==
    IF a.d = 0 /\ b.d = 0 THEN (IF a = b THEN a ELSE NaN)
    ELSE IF a.d = 0 THEN a
    ELSE IF b.d = 0 THEN b
    ELSE LET g == GCD(a.d, b.d)
         IN  Q(a.n * (b.d \div g) + b.n * (a.d \div g), (a.d \div g) * b.d)

RSub(a, b) == RAdd(a, RNeg(b))

RMul(a, b) ==
    IF a.d = 0 \/ b.d = 0 THEN Q(a.n * b.n, 0)
    ELSE LET g1 == GCD(Abs(a.n), b.d)
             g2 == GCD(Abs(b.n), a.d)
         IN  IF a.n = 0 \/ b.n = 0 THEN R(0)
             ELSE Q((a.n \div g1) * (b.n \div g2), (a.d \div g2) * (b.d \div g1))

RInv(a) == Q(Sign(a.n) * a.d, Abs(a.n))

\* a / b; a finite non-zero value over zero is an infinity, 0 / 0 is NaN
RDiv(a, b) ==
    IF b = R(0) THEN (IF a.d = 0 THEN a ELSE Q(a.n, 0))
    ELSE RMul(a, RInv(b))

RLess(a, b) ==
    IF a = NaN \/ b = NaN THEN FALSE
    ELSE IF a.d = 0 /\ b.d = 0 THEN a.n < b.n
    ELSE a.n * b.d < b.n * a.d

RLeq(a, b) ==
    IF a = NaN \/ b = NaN THEN FALSE ELSE a = b \/ RLess(a, b)

RAbs(a) == [n |-> Abs(a.n), d |-> a.d]

RMax(a, b) == IF RLess(a, b) THEN b ELSE a

\* std::floor of a finite value, as an integer
Floor(a) == a.n \div a.d

\* std::ceil of a finite value, as an integer
Ceil(a) == -((-a.n) \div a.d)

\* static_cast<int> of a finite double: truncation toward zero
Trunc(a) == IF a.n >= 0 THEN a.n \div a.d ELSE -((-a.n) \div a.d)

IsInt(a) == a.d = 1

----------------------------------------------------------------------------
(* Bounds of the model and the inputs the operations are called with.     *)

\* the longest tempo map the model builds
MaxEvents == 2

\* TempoEvent { timeInSeconds, bpm, upperTimeSig, lowerTimeSig }
TempoEvent(t, bpm, upper, lower) ==
    [timeInSeconds |-> t, bpm |-> bpm, upperTimeSig |-> upper, lowerTimeSig |-> lower]

\* the event the constructor adds and the fallback of an empty map
DefaultTempo == TempoEvent(R(0), R(120), 4, 4)

EventTimes == {R(-1), R(0), R(1)}

TempoEvents ==
    {TempoEvent(t, R(120), 4, 4) : t \in EventTimes}
        \cup {TempoEvent(t, R(60), 3, 8) : t \in EventTimes}
        \cup {TempoEvent(R(0), R(1), 4, 4)}

\* arguments of the constructor: the defaults (960, 48000) and values the
\* setters would have clamped
CtorPPQNs == {12, 960}

CtorSampleRates == {R(0), R(48000)}

SetPPQNs == {12, 48}

SetSampleRates == {R(-1), Q(1, 2)}

\* (bpm, timeInSeconds) arguments of setTempo
SetTempoArgs == {<<R(1), R(0)>>, <<R(60), R(0)>>, <<R(120), R(1)>>}

----------------------------------------------------------------------------
(* Helper methods                                                          *)

IsSortedByTime(m) ==
    \A i \in 1..(Len(m) - 1) : RLeq(m[i].timeInSeconds, m[i + 1].timeInSeconds)

\* std::sort with the comparator a.timeInSeconds < b.timeInSeconds: the
\* order of events with equal times is unspecified, so every ascending
\* arrangement of the elements is a possible outcome
SortByTime(m) ==
    {s \in {[i \in 1..Len(m) |-> m[p[i]]] : p \in Permutations(1..Len(m))} :
        IsSortedByTime(s)}

\* the backward scan of getCurrentTempo from position i down to 1
RECURSIVE ScanBack(_, _, _)
ScanBack(m, t, i) ==
    IF i = 0 THEN m[1]
    ELSE IF RLeq(m[i].timeInSeconds, t) THEN m[i]
    ELSE ScanBack(m, t, i - 1)

\* a lookup scanning forward: the first event at or before t
RECURSIVE ScanForward(_, _, _)
ScanForward(m, t, i) ==
    IF i > Len(m) THEN m[1]
    ELSE IF RLeq(m[i].timeInSeconds, t) THEN m[i]
    ELSE ScanForward(m, t, i + 1)

getCurrentTempoForward(m, t) ==
    IF Len(m) = 0 THEN TempoEvent(R(0), R(120), 4, 4)
    ELSE ScanForward(m, t, 1)

getCurrentTempo(m, t) ==
    IF Len(m) = 0 THEN TempoEvent(R(0), R(120), 4, 4)
    ELSE ScanBack(m, t, Len(m))

getTempoAt(m, t) == getCurrentTempo(m, t)

----------------------------------------------------------------------------
(* Construction and configuration                                          *)

\* call holds the call that has just run and what it returned; the lattice
\* is single-threaded and non-reentrant, so a call starts only once the
\* previous one has returned to the caller
NoCall == [op |-> "none"]

Idle == call = NoCall

Return ==
    /\ ~Idle
    /\ call' = NoCall
    /\ UNCHANGED <<ppqn, sampleRate, tempoMap, markers, nextMarkerId>>

\* AudioTimeLattice(ppqn, sampleRate): the arguments are stored as given
Init ==
    /\ ppqn \in CtorPPQNs
    /\ sampleRate \in CtorSampleRates
    /\ tempoMap = <<TempoEvent(R(0), R(120), 4, 4)>>
    /\ markers = <<>>
    /\ nextMarkerId = 1
    /\ call = NoCall

jmaxInt(a, b) == IF a < b THEN b ELSE a

jmaxReal(a, b) == IF RLess(a, b) THEN b ELSE a

\* the value setPPQN stores
clampPPQN(newPPQN) == jmaxInt(24, newPPQN)

setPPQN(newPPQN) ==
    /\ Idle
    /\ ppqn' = clampPPQN(newPPQN)
    /\ call' = [op |-> "setPPQN", arg |-> newPPQN]
    /\ UNCHANGED <<sampleRate, tempoMap, markers, nextMarkerId>>

\* the value setSampleRate stores
clampSampleRate(rate) == jmaxReal(R(1), rate)

setSampleRate(rate) ==
    /\ Idle
    /\ sampleRate' = clampSampleRate(rate)
    /\ call' = [op |-> "setSampleRate", arg |-> rate]
    /\ UNCHANGED <<ppqn, tempoMap, markers, nextMarkerId>>

\* setTempo forgetting its push_back
setTempoMapCleared(m, bpm, timeInSeconds) == <<>>

\* the map setTempo leaves: clearTempoMap(), then one push_back
setTempoMap(m, bpm, timeInSeconds) ==
    Append(<<>>, TempoEvent(timeInSeconds, bpm, 4, 4))

setTempo(bpm, timeInSeconds) ==
    /\ Idle
    /\ tempoMap' = setTempoMap(tempoMap, bpm, timeInSeconds)
    /\ call' = [op |-> "setTempo"]
    /\ UNCHANGED <<ppqn, sampleRate, markers, nextMarkerId>>

\* addTempoChange without the sort
addTempoChangeUnsorted(m, tempo) == {Append(m, tempo)}

\* the maps addTempoChange can leave: push_back, then std::sort
addTempoChangeMaps(m, tempo) == SortByTime(Append(m, tempo))

addTempoChange(tempo) ==
    /\ Idle
    /\ Len(tempoMap) < MaxEvents
    /\ tempoMap' \in addTempoChangeMaps(tempoMap, tempo)
    /\ call' = [op |-> "addTempoChange"]
    /\ UNCHANGED <<ppqn, sampleRate, markers, nextMarkerId>>

clearTempoMap ==
    /\ Idle
    /\ tempoMap' = <<>>
    /\ call' = [op |-> "clearTempoMap"]
    /\ UNCHANGED <<ppqn, sampleRate, markers, nextMarkerId>>

----------------------------------------------------------------------------
(* Utility queries                                                         *)

LookupTimes == {R(-2), R(-1), R(0), Q(1, 2), R(1), R(2)}

GetTempoAt(t) ==
    /\ Idle
    /\ call' = [op |-> "getTempoAt", arg |-> t, res |-> getTempoAt(tempoMap, t)]
    /\ UNCHANGED <<ppqn, sampleRate, tempoMap, markers, nextMarkerId>>

\* a tick length taken from the latest event of the map
getTickDurationLatest(m, p) ==
    LET tempo == IF Len(m) = 0 THEN TempoEvent(R(0), R(120), 4, 4) ELSE m[Len(m)]
    IN  RDiv(RDiv(R(60), tempo.bpm), R(p))

getTickDuration(m, p) ==
    LET tempo == getCurrentTempo(m, R(0))
        beatLength == RDiv(R(60), tempo.bpm)
    IN  RDiv(beatLength, R(p))

GetTickDuration ==
    /\ Idle
    /\ call' = [op |-> "getTickDuration", res |-> getTickDuration(tempoMap, ppqn)]
    /\ UNCHANGED <<ppqn, sampleRate, tempoMap, markers, nextMarkerId>>

----------------------------------------------------------------------------
(* Time domain conversions                                                 *)

TimeDomains == {"AudioSamples", "Seconds", "MusicalTicks", "BarsBeatsTicks", "SMPTEFrames"}

\* std::numeric_limits<double>::epsilon(), scaled to the resolution of the
\* model's time values: a value within this relative distance below a bar or
\* beat boundary is pushed across it, as the last ulp is in the code
epsilon == Q(1, 64)

\* C++ integer division and remainder (truncating toward zero)
CDiv(a, b) == IF a >= 0 THEN a \div b ELSE -((-a) \div b)

CMod(a, b) == a - b * CDiv(a, b)

MusicalTime(bars, beats, ticks, remainder) ==
    [bars |-> bars, beats |-> beats, ticks |-> ticks, remainder |-> remainder]

\* secondsToMusical taking the quarter note as the beat whatever the meter
secondsToMusicalQuarterBeat(m, p, seconds) ==
    LET tempo == getCurrentTempo(m, seconds)
        beatLength == RDiv(R(60), tempo.bpm)
        barLength == RMul(R(tempo.upperTimeSig), beatLength)
        eps == RAdd(R(1), RMul(RMax(R(1), seconds), epsilon))
        bars == Floor(RDiv(RMul(seconds, eps), barLength))
        seconds1 == RSub(seconds, RMul(R(bars), barLength))
        beats == Floor(RDiv(RMul(seconds1, eps), beatLength))
        seconds2 == RSub(seconds1, RMul(R(beats), beatLength))
        ticksFractional == RMul(seconds2, RDiv(R(p), beatLength))
        ticks == Trunc(ticksFractional)
    IN  MusicalTime(bars + 1, beats + 1, ticks, RSub(ticksFractional, R(ticks)))

secondsToMusical(m, p, seconds) ==
    LET tempo == getCurrentTempo(m, seconds)
        quarterLength == RDiv(R(60), tempo.bpm)
        beatLength == RDiv(RMul(quarterLength, R(4)), R(tempo.lowerTimeSig))
        barLength == RMul(R(tempo.upperTimeSig), beatLength)
        eps == RAdd(R(1), RMul(RMax(R(1), seconds), epsilon))
        bars == Floor(RDiv(RMul(seconds, eps), barLength))
        seconds1 == RSub(seconds, RMul(R(bars), barLength))
        beats == Floor(RDiv(RMul(seconds1, eps), beatLength))
        seconds2 == RSub(seconds1, RMul(R(beats), beatLength))
        ticksFractional == RMul(seconds2, RDiv(R(p), beatLength))
        ticks == Trunc(ticksFractional)
        remainder == RSub(ticksFractional, R(ticks))
    IN  MusicalTime(bars + 1, beats + 1, ticks, remainder)

\* musicalToSeconds dropping the sub-tick remainder
musicalToSecondsNoRemainder(m, p, mt) ==
    LET tempo == getCurrentTempo(m, R(0))
        quarterLength == RDiv(R(60), tempo.bpm)
        beatLength == RDiv(RMul(quarterLength, R(4)), R(tempo.lowerTimeSig))
        totalBeats == RAdd(R((mt.bars - 1) * tempo.upperTimeSig + (mt.beats - 1)),
                           RDiv(R(mt.ticks), R(p)))
    IN  RMul(totalBeats, beatLength)

musicalToSeconds(m, p, mt) ==
    LET tempo == getCurrentTempo(m, R(0))
        quarterLength == RDiv(R(60), tempo.bpm)
        beatLength == RDiv(RMul(quarterLength, R(4)), R(tempo.lowerTimeSig))
        totalBeats == RAdd(R((mt.bars - 1) * tempo.upperTimeSig + (mt.beats - 1)),
                           RDiv(RAdd(R(mt.ticks), mt.remainder), R(p)))
    IN  RMul(totalBeats, beatLength)

\* toSeconds resolving the tick length against the tempo at the tick count
toSecondsTempoAtValue(m, p, sr, value, domain) ==
    CASE domain = "AudioSamples" -> RDiv(value, sr)
      [] domain = "Seconds" -> value
      [] domain = "MusicalTicks" ->
            LET tempo == getCurrentTempo(m, value)
                beatLength == RDiv(R(60), tempo.bpm)
                tickLength == RDiv(beatLength, R(p))
            IN  RMul(value, tickLength)
      [] domain = "BarsBeatsTicks" -> R(0)
      [] domain = "SMPTEFrames" -> RDiv(value, R(30))

toSeconds(m, p, sr, value, domain) ==
    CASE domain = "AudioSamples" -> RDiv(value, sr)
      [] domain = "Seconds" -> value
      [] domain = "MusicalTicks" ->
            LET tempo == getCurrentTempo(m, R(0))
                beatLength == RDiv(R(60), tempo.bpm)
                tickLength == RDiv(beatLength, R(p))
            IN  RMul(value, tickLength)
      [] domain = "BarsBeatsTicks" ->
            LET encoded == Trunc(value)
                bars == CDiv(encoded, 1000000)
                beats == CDiv(CMod(encoded, 1000000), 1000)
                ticks == CMod(encoded, 1000)
            IN  musicalToSeconds(m, p, MusicalTime(bars, beats, ticks, R(0)))
      [] domain = "SMPTEFrames" -> RDiv(value, R(30))

\* fromSeconds resolving the tick length against the tempo at time 0
fromSecondsTempoAtZero(m, p, sr, seconds, domain) ==
    CASE domain = "AudioSamples" -> RMul(seconds, sr)
      [] domain = "Seconds" -> seconds
      [] domain = "MusicalTicks" ->
            LET tempo == getCurrentTempo(m, R(0))
                beatLength == RDiv(R(60), tempo.bpm)
            IN  RDiv(seconds, RDiv(beatLength, R(p)))
      [] domain = "BarsBeatsTicks" -> R(0)
      [] domain = "SMPTEFrames" -> RMul(seconds, R(30))

fromSeconds(m, p, sr, seconds, domain) ==
    CASE domain = "AudioSamples" -> RMul(seconds, sr)
      [] domain = "Seconds" -> seconds
      [] domain = "MusicalTicks" ->
            LET tempo == getCurrentTempo(m, seconds)
                beatLength == RDiv(R(60), tempo.bpm)
            IN  RDiv(seconds, RDiv(beatLength, R(p)))
      [] domain = "BarsBeatsTicks" ->
            LET mt == secondsToMusical(m, p, seconds)
            IN  R(mt.bars * 1000000 + mt.beats * 1000 + mt.ticks)
      [] domain = "SMPTEFrames" -> RMul(seconds, R(30))

convert(m, p, sr, value, from, to) ==
    LET seconds == toSeconds(m, p, sr, value, from)
    IN  fromSeconds(m, p, sr, seconds, to)

\* seconds values converted between domains
ConvTimes == {Q(-1, 2), R(0), Q(1, 3), R(2), R(3)}

\* seconds values converted to musical time: negative, zero, fractions, and
\* values just below, at and just above the bar boundaries 3/2 s (60 bpm 3/8)
\* and 2 s (120 bpm 4/4)
MusicalTimes ==
    {Q(-1, 2), R(0), Q(1, 3), Q(47, 32), Q(3, 2), Q(63, 32), R(2),
     Q(65, 32), R(3), R(6)}

\* convert(t, Seconds, D)
ConvertFromSeconds(t, domain) ==
    /\ Idle
    /\ call' = [op |-> "convert", arg |-> t, from |-> "Seconds", to |-> domain,
                res |-> convert(tempoMap, ppqn, sampleRate, t, "Seconds", domain)]
    /\ UNCHANGED <<ppqn, sampleRate, tempoMap, markers, nextMarkerId>>

\* convert(v, D, Seconds) applied to the result v of the convert(t, Seconds, D)
\* just made
ConvertBack ==
    /\ call.op = "convert"
    /\ call' = [op |-> "roundTrip", t |-> call.arg, domain |-> call.to,
                mid |-> call.res,
                res |-> convert(tempoMap, ppqn, sampleRate, call.res, call.to, "Seconds")]
    /\ UNCHANGED <<ppqn, sampleRate, tempoMap, markers, nextMarkerId>>

SecondsToMusical(t) ==
    /\ Idle
    /\ call' = [op |-> "secondsToMusical", arg |-> t,
                res |-> secondsToMusical(tempoMap, ppqn, t)]
    /\ UNCHANGED <<ppqn, sampleRate, tempoMap, markers, nextMarkerId>>

\* musicalToSeconds applied to the MusicalTime secondsToMusical just returned
MusicalToSeconds ==
    /\ call.op = "secondsToMusical"
    /\ call' = [op |-> "musicalToSeconds", arg |-> call.res, t |-> call.arg,
                res |-> musicalToSeconds(tempoMap, ppqn, call.res)]
    /\ UNCHANGED <<ppqn, sampleRate, tempoMap, markers, nextMarkerId>>

----------------------------------------------------------------------------
(* Grid generation and quantization                                        *)

getBeatDuration(m, atTime) == RDiv(R(60), getCurrentTempo(m, atTime).bpm)

getBarDuration(m, atTime) ==
    LET tempo == getCurrentTempo(m, atTime)
    IN  RMul(RDiv(R(60), tempo.bpm), R(tempo.upperTimeSig))

\* the grid loop with an exclusive end
gridLoopExclusive(length, startSeconds, endSeconds) ==
    LET first == Trunc(RDiv(startSeconds, length))
        last == Trunc(RDiv(endSeconds, length))
        times == [i \in 1..(last - first + 1) |-> RMul(R(first + i - 1), length)]
        inRange(time) == RLeq(startSeconds, time) /\ RLess(time, endSeconds)
    IN  SelectSeq(times, inRange)

\* the loop the three grid generators share: for each index from
\* static_cast<int>(start / length) to static_cast<int>(end / length), the
\* time index * length is pushed when it lies in [start, end]
gridLoop(length, startSeconds, endSeconds) ==
    LET first == Trunc(RDiv(startSeconds, length))
        last == Trunc(RDiv(endSeconds, length))
        times == [i \in 1..(last - first + 1) |-> RMul(R(first + i - 1), length)]
        inRange(time) == RLeq(startSeconds, time) /\ RLeq(time, endSeconds)
    IN  SelectSeq(times, inRange)

generatePPQNGrid(m, p, startSeconds, endSeconds) ==
    LET tempo == getCurrentTempo(m, startSeconds)
        beatLength == RDiv(R(60), tempo.bpm)
        tickLength == RDiv(beatLength, R(p))
    IN  gridLoop(tickLength, startSeconds, endSeconds)

generateBeatGrid(m, startSeconds, endSeconds) ==
    LET tempo == getCurrentTempo(m, startSeconds)
        beatLength == RDiv(R(60), tempo.bpm)
    IN  gridLoop(beatLength, startSeconds, endSeconds)

generateBarGrid(m, startSeconds, endSeconds) ==
    LET tempo == getCurrentTempo(m, startSeconds)
        beatLength == RDiv(R(60), tempo.bpm)
        barLength == RMul(R(tempo.upperTimeSig), beatLength)
    IN  gridLoop(barLength, startSeconds, endSeconds)

QuantizeModes == {"Nearest", "Floor", "Ceil"}

\* the nearest-point loop of quantizeToGrid over grid[lo..hi]: the index the
\* loop ends with.  A later point replaces the current one only when it is
\* strictly closer, so of two halves the left one wins unless the right one
\* is strictly closer (the halves keep the evaluation shallow).
RECURSIVE NearestIndex(_, _, _, _)
NearestIndex(grid, timeInSeconds, lo, hi) ==
    IF lo = hi THEN lo
    ELSE LET mid == (lo + hi) \div 2
             l == NearestIndex(grid, timeInSeconds, lo, mid)
             r == NearestIndex(grid, timeInSeconds, mid + 1, hi)
         IN  IF RLess(RAbs(RSub(timeInSeconds, grid[r])), RAbs(RSub(timeInSeconds, grid[l])))
             THEN r
             ELSE l

\* quantizeToGrid whose Nearest mode hands the time back unsnapped
quantizeToGridNoSnap(m, p, timeInSeconds, mode) ==
    LET grid == generatePPQNGrid(m, p, RSub(timeInSeconds, R(1)), RAdd(timeInSeconds, R(1)))
    IN  IF Len(grid) = 0 \/ mode = "Nearest" THEN timeInSeconds
        ELSE IF mode = "Floor" THEN grid[1]
        ELSE grid[Len(grid)]

quantizeToGrid(m, p, timeInSeconds, mode) ==
    LET grid == generatePPQNGrid(m, p, RSub(timeInSeconds, R(1)), RAdd(timeInSeconds, R(1)))
    IN  IF Len(grid) = 0 THEN timeInSeconds
        ELSE LET nearestTime == grid[NearestIndex(grid, timeInSeconds, 1, Len(grid))]
             IN  CASE mode = "Nearest" -> nearestTime
                   [] mode = "Floor" ->
                        IF RLeq(nearestTime, timeInSeconds) THEN nearestTime
                        ELSE IF Len(grid) > 1 THEN grid[Len(grid) - 1]
                        ELSE nearestTime
                   [] mode = "Ceil" ->
                        IF RLeq(timeInSeconds, nearestTime) THEN nearestTime
                        ELSE IF Len(grid) > 1 THEN grid[2]
                        ELSE nearestTime

\* range ends of the grid requests
GridTimes == {R(-1), Q(-1, 3), R(0), Q(1, 4), R(2)}

\* times quantized
QuantTimes == {Q(-1, 3), R(0), Q(1, 100), Q(6, 5), R(2)}

GeneratePPQNGrid(startSeconds, endSeconds) ==
    /\ Idle
    /\ call' = [op |-> "generatePPQNGrid", start |-> startSeconds, end |-> endSeconds,
                res |-> generatePPQNGrid(tempoMap, ppqn, startSeconds, endSeconds)]
    /\ UNCHANGED <<ppqn, sampleRate, tempoMap, markers, nextMarkerId>>

GenerateBeatGrid(startSeconds, endSeconds) ==
    /\ Idle
    /\ call' = [op |-> "generateBeatGrid", start |-> startSeconds, end |-> endSeconds,
                res |-> generateBeatGrid(tempoMap, startSeconds, endSeconds)]
    /\ UNCHANGED <<ppqn, sampleRate, tempoMap, markers, nextMarkerId>>

GenerateBarGrid(startSeconds, endSeconds) ==
    /\ Idle
    /\ call' = [op |-> "generateBarGrid", start |-> startSeconds, end |-> endSeconds,
                res |-> generateBarGrid(tempoMap, startSeconds, endSeconds)]
    /\ UNCHANGED <<ppqn, sampleRate, tempoMap, markers, nextMarkerId>>

QuantizeToGrid(timeInSeconds, mode) ==
    /\ Idle
    /\ call' = [op |-> "quantizeToGrid", arg |-> timeInSeconds, mode |-> mode,
                res |-> quantizeToGrid(tempoMap, ppqn, timeInSeconds, mode)]
    /\ UNCHANGED <<ppqn, sampleRate, tempoMap, markers, nextMarkerId>>

----------------------------------------------------------------------------
(* Value quantization                                                      *)

\* enum class ValueResolution { Bit7 = 7, Bit14 = 14, Bit24 = 24, Bit32 = 32 }
ValueResolutions == {7, 14, 24, 32}

\* INT_MIN of the 32-bit int
IntMin == -2147483647 - 1

\* the int values 1 << bits can have: 2^bits while that fits; a shift by the
\* width of int or more is undefined, and builds yield 0 (the bits shifted
\* out, i.e. 2^bits modulo 2^32) or 1 << (bits % 32) (the count masked, as
\* the x86 shift instruction does)
shiftLeftOne(bits) ==
    IF bits < 31 THEN {2^bits} ELSE {0, 2^(bits % 32)}

\* the values of int steps = (1 << bits) - 1
stepCounts(resolution) == {s - 1 : s \in shiftLeftOne(resolution)}

\* static_cast<int> of a double: truncation toward zero; of a NaN or an
\* infinity it is undefined, and builds yield 0 or INT_MIN
castInt(x) == IF x.d # 0 THEN {Trunc(x)} ELSE {0, IntMin}

\* operator== of doubles: a NaN equals nothing
REq(a, b) == a # NaN /\ b # NaN /\ a = b

\* the body of quantizeValue once steps is computed: the step index and the
\* value returned, for each outcome of the cast
quantizeValueWith(value, steps) ==
    LET normalized == RMul(RAdd(value, R(1)), Q(1, 2))
    IN  {[steps |-> steps, quantized |-> q,
          res |-> RSub(RMul(RDiv(R(q), R(steps)), R(2)), R(1))] :
            q \in castInt(RAdd(RMul(normalized, R(steps)), Q(1, 2)))}

quantizeValue(value, resolution) ==
    UNION {quantizeValueWith(value, steps) : steps \in stepCounts(resolution)}

\* values quantized, all in [-1, 1]
ValueInputs ==
    {R(-1), Q(-99, 100), Q(-1, 2), Q(-1, 3), R(0), Q(1, 100), Q(1, 3), Q(1, 2),
     Q(99, 100), R(1)}

QuantizeValue(value, resolution) ==
    /\ Idle
    /\ \E r \in quantizeValue(value, resolution) :
          call' = [op |-> "quantizeValue", arg |-> value, resolution |-> resolution,
                   steps |-> r.steps, quantized |-> r.quantized, res |-> r.res]
    /\ UNCHANGED <<ppqn, sampleRate, tempoMap, markers, nextMarkerId>>

\* the value just returned is quantized again, by the same build
QuantizeValueAgain ==
    /\ call.op = "quantizeValue"
    /\ \E r \in quantizeValueWith(call.res, call.steps) :
          call' = [op |-> "quantizeValueAgain", arg |-> call.arg,
                   resolution |-> call.resolution, first |-> call.res,
                   steps |-> r.steps, quantized |-> r.quantized, res |-> r.res]
    /\ UNCHANGED <<ppqn, sampleRate, tempoMap, markers, nextMarkerId>>

----------------------------------------------------------------------------
(* Breakpoint quantization                                                 *)

calculatePerceptualThreshold(resolution) ==
    CASE resolution = 7 -> Q(2, 100)
      [] resolution = 14 -> Q(1, 1000)
      [] resolution = 24 -> Q(1, 10000)
      [] resolution = 32 -> Q(1, 100000)
      [] OTHER -> Q(1, 100)

\* an / ad < bn / bd for ad, bd > 0, by the integer parts and then the
\* reciprocals of the fractional parts (no cross products)
RECURSIVE FracLess(_, _, _, _)
FracLess(an, ad, bn, bd) ==
    IF an \div ad # bn \div bd THEN an \div ad < bn \div bd
    ELSE IF bn % bd = 0 THEN FALSE
    ELSE IF an % ad = 0 THEN TRUE
    ELSE FracLess(bd, bn % bd, ad, an % ad)

\* a < b where the operands' cross products exceed the model's integers
RLessWide(a, b) ==
    IF a.d = 0 \/ b.d = 0 THEN RLess(a, b) ELSE FracLess(a.n, a.d, b.n, b.d)

\* a breakpoint is a std::pair<double, double>, here <<time, value>>

\* the simplify test of the loop with || in place of &&
tooCloseEither(m, p, result, qPoint, threshold) ==
    LET lastTime == result[Len(result)][1]
        lastValue == result[Len(result)][2]
    IN  \/ RLess(RAbs(RSub(qPoint[1], lastTime)), RMul(getTickDuration(m, p), Q(1, 2)))
        \/ RLessWide(RAbs(RSub(qPoint[2], lastValue)), threshold)

\* the simplify test of the loop: lastTime and lastValue are those of the
\* point pushed last
tooClose(m, p, result, qPoint, threshold) ==
    LET lastTime == result[Len(result)][1]
        lastValue == result[Len(result)][2]
    IN  /\ RLess(RAbs(RSub(qPoint[1], lastTime)), RMul(getTickDuration(m, p), Q(1, 2)))
        /\ RLessWide(RAbs(RSub(qPoint[2], lastValue)), threshold)

\* the loop of quantizeBreakpoints from input[i] on, result holding the
\* points pushed so far: the results it can end with, one for each outcome
\* of the casts
RECURSIVE breakpointLoop(_, _, _, _, _, _, _, _)
breakpointLoop(m, p, input, resolution, simplify, steps, i, result) ==
    IF i > Len(input) THEN {result}
    ELSE UNION {
        LET qPoint == <<quantizeToGrid(m, p, input[i][1], "Nearest"), qv.res>>
            skip == /\ simplify
                    /\ Len(result) > 0
                    /\ tooClose(m, p, result, qPoint,
                                calculatePerceptualThreshold(resolution))
        IN  breakpointLoop(m, p, input, resolution, simplify, steps, i + 1,
                IF skip THEN result ELSE Append(result, qPoint)) :
        qv \in quantizeValueWith(input[i][2], steps)}

\* quantizeBreakpoints that never simplifies
quantizeBreakpointsWithKeepAll(m, p, input, resolution, simplify, steps) ==
    IF Len(input) = 0 THEN {<<>>}
    ELSE breakpointLoop(m, p, input, resolution, FALSE, steps, 1, <<>>)

\* the curves quantizeBreakpoints can return once the build has computed
\* steps
quantizeBreakpointsWith(m, p, input, resolution, simplify, steps) ==
    IF Len(input) = 0 THEN {<<>>}
    ELSE breakpointLoop(m, p, input, resolution, simplify, steps, 1, <<>>)

\* the times of the curves quantized: none, one point, points 1 ms apart on
\* one side of a grid midpoint and on both sides of it, points on the two
\* sides of second 2, points in descending order
CurveTimes ==
    {<<>>, <<R(0)>>,
     <<R(0), Q(1, 1000)>>, <<Q(1, 100), Q(11, 1000)>>, <<Q(8, 5), R(2)>>,
     <<R(2), R(0)>>,
     <<R(0), Q(1, 1000), Q(1, 500)>>, <<R(0), Q(1, 1000), Q(1, 100)>>}

\* their values a, b, c: quantized, b is a and c is b within the threshold
\* of the resolution and c is not a within it, for 7 and 14 bits (for 7 bits
\* a and c are 0.0159 apart, two steps of 2/127 once quantized); for 24 and
\* 32 bits the values are 0.02 apart
CurveValues(resolution) ==
    IF resolution = 7 THEN <<Q(39, 2500), Q(1, 50), Q(63, 2000)>>
    ELSE IF resolution = 14 THEN <<R(0), Q(1, 2000), Q(1, 800)>>
    ELSE <<R(0), Q(1, 50), Q(1, 25)>>

CurveValueOrders ==
    {<<>>, <<1>>, <<1, 1>>, <<1, 2>>, <<1, 3>>, <<1, 2, 3>>, <<1, 1, 1>>, <<1, 3, 2>>}

Curves(resolution) ==
    {[i \in 1..Len(ts) |-> <<ts[i], CurveValues(resolution)[vs[i]]>>] :
        <<ts, vs>> \in {c \in CurveTimes \X CurveValueOrders : Len(c[1]) = Len(c[2])}}

\* the tempo changes added while curves are quantized
CurveTempoEvents == {TempoEvent(R(1), R(120), 4, 4), TempoEvent(R(-1), R(60), 3, 8)}

QuantizeBreakpoints(input, resolution, simplify) ==
    /\ Idle
    /\ \E steps \in stepCounts(resolution) :
          \E result \in quantizeBreakpointsWith(tempoMap, ppqn, input, resolution,
                                                simplify, steps) :
              call' = [op |-> "quantizeBreakpoints", input |-> input,
                       resolution |-> resolution, simplify |-> simplify,
                       steps |-> steps, res |-> result]
    /\ UNCHANGED <<ppqn, sampleRate, tempoMap, markers, nextMarkerId>>

----------------------------------------------------------------------------
(* Audio editing operations                                                *)

\* a juce::AudioBuffer<float> is modelled by the samples of one channel (the
\* operations treat every channel alike), a sample by an integer

\* the longest buffer edited
MaxSamples == 4

\* the buffers edited: n samples 1, 2, .., n
Buffers == {[i \in 1..n |-> i] : n \in 0..MaxSamples}

\* the values static_cast<int>(seconds * sampleRate + 0.5) can have
secondsToSamples(sr, seconds) == castInt(RAdd(RMul(seconds, sr), Q(1, 2)))

samplesToSeconds(sr, samples) == RDiv(R(samples), sr)

\* juce::jlimit(lowerLimit, upperLimit, valueToConstrain)
jlimit(lowerLimit, upperLimit, value) ==
    IF value < lowerLimit THEN lowerLimit
    ELSE IF upperLimit < value THEN upperLimit
    ELSE value

\* the buffers trim can return: samples startSample .. endSample - 1 of the
\* input (indices from 0)
trim(sr, input, startTime, endTime) ==
    {LET startSample == jlimit(0, Len(input), s)
         endSample == jlimit(startSample, Len(input), e)
     IN  SubSeq(input, startSample + 1, endSample) :
        s \in secondsToSamples(sr, startTime), e \in secondsToSamples(sr, endTime)}

\* cut copying the part after the cut from startSample on
cutFromStart(sr, input, startTime, endTime) ==
    {LET startSample == jlimit(0, Len(input), s)
         endSample == jlimit(startSample, Len(input), e)
     IN  SubSeq(input, 1, startSample) \o SubSeq(input, startSample + 1, Len(input)) :
        s \in secondsToSamples(sr, startTime), e \in secondsToSamples(sr, endTime)}

\* the buffers cut can return: the samples before startSample, then those
\* from endSample on
cut(sr, input, startTime, endTime) ==
    {LET startSample == jlimit(0, Len(input), s)
         endSample == jlimit(startSample, Len(input), e)
     IN  SubSeq(input, 1, startSample) \o SubSeq(input, endSample + 1, Len(input)) :
        s \in secondsToSamples(sr, startTime), e \in secondsToSamples(sr, endTime)}

\* the sequences that take their k-th element from the k-th set of sets
RECURSIVE Choices(_)
Choices(sets) ==
    IF Len(sets) = 0 THEN {<<>>}
    ELSE {Append(front, last) :
            front \in Choices(SubSeq(sets, 1, Len(sets) - 1)), last \in sets[Len(sets)]}

\* the segment lists split can return: trim between each two neighbours of
\* 0, the split times as given, and the end of the buffer
split(sr, input, splitTimes) ==
    LET times == <<R(0)>> \o splitTimes \o <<samplesToSeconds(sr, Len(input))>>
    IN  Choices([i \in 1..(Len(times) - 1) |-> trim(sr, input, times[i], times[i + 1])])

\* the value of totalLength after the first i clips: std::max, from 0.0,
\* over the end times positions[i] + samplesToSeconds(length of clips[i])
RECURSIVE mergeTotalLength(_, _, _, _)
mergeTotalLength(sr, clips, positions, i) ==
    IF i = 0 THEN R(0)
    ELSE RMax(mergeTotalLength(sr, clips, positions, i - 1),
              RAdd(positions[i], samplesToSeconds(sr, Len(clips[i]))))

\* output sample k (from 0) once the first i clips are added at starts
RECURSIVE mixAt(_, _, _, _)
mixAt(clips, starts, k, i) ==
    IF i = 0 THEN 0
    ELSE mixAt(clips, starts, k, i - 1)
            + (IF starts[i] <= k /\ k < starts[i] + Len(clips[i])
               THEN clips[i][k - starts[i] + 1]
               ELSE 0)

\* the buffers merge can return.  addFrom does not clamp: a clip that starts
\* before sample 0 or ends after the output's last sample is written outside
\* the output's memory, which is undefined; overrun tells that this
\* happened, samples are those inside the output
merge(sr, clips, positions) ==
    IF Len(clips) = 0 \/ Len(positions) # Len(clips) THEN {[samples |-> <<>>, overrun |-> FALSE]}
    ELSE {[samples |-> [k \in 1..size |-> mixAt(clips, starts, k - 1, Len(clips))],
           overrun |-> \E i \in 1..Len(clips) :
                          /\ Len(clips[i]) > 0
                          /\ starts[i] < 0 \/ starts[i] + Len(clips[i]) > size] :
            size \in secondsToSamples(sr, mergeTotalLength(sr, clips, positions, Len(clips))),
            starts \in Choices([i \in 1..Len(clips) |->
                                    secondsToSamples(sr, positions[i])])}

\* a buffer of length samples after clear()
silence(length) == [k \in 1..length |-> 0]

\* what juce::AudioBuffer::copyFrom requires of its arguments (it asserts
\* this in debug builds and checks nothing in release builds)
regionInBounds(destLength, destStartSample, sourceLength, sourceStartSample, numSamples) ==
    /\ numSamples >= 0
    /\ destStartSample >= 0
    /\ destStartSample + numSamples <= destLength
    /\ sourceStartSample >= 0
    /\ sourceStartSample + numSamples <= sourceLength

\* dest after dest.copyFrom(ch, destStartSample, source, ch,
\* sourceStartSample, numSamples) with both regions inside their buffers;
\* copyFrom copies nothing unless numSamples > 0
copyFrom(dest, destStartSample, source, sourceStartSample, numSamples) ==
    [k \in 1..Len(dest) |->
        IF numSamples > 0 /\ destStartSample < k /\ k <= destStartSample + numSamples
        THEN source[sourceStartSample + (k - destStartSample)]
        ELSE dest[k]]

\* the outcomes of a call that read or wrote outside a buffer: undefined,
\* any buffer
UndefinedBuffers == Buffers

\* nudge filling the part of the output it does not copy to with the
\* input's samples
nudgeOverInput(sr, input, nudgeAmount, fillWithSilence) ==
    {LET count == Len(input) - nudgeSamples
         nudgeForward == RLess(R(0), nudgeAmount)
     IN  [samples |-> IF nudgeForward
                      THEN copyFrom(input, nudgeSamples, input, 0, count)
                      ELSE copyFrom(input, 0, input, nudgeSamples, count),
          nudgeSamples |-> nudgeSamples,
          count |-> count] :
        nudgeSamples \in secondsToSamples(sr, RAbs(nudgeAmount))}

\* the buffers nudge can return, with the shift and the numSamples handed to
\* copyFrom; fillWithSilence is not read
nudge(sr, input, nudgeAmount, fillWithSilence) ==
    {LET count == Len(input) - nudgeSamples
         nudgeForward == RLess(R(0), nudgeAmount)
         output == silence(Len(input))
     IN  [samples |-> IF nudgeForward
                      THEN copyFrom(output, nudgeSamples, input, 0, count)
                      ELSE copyFrom(output, 0, input, nudgeSamples, count),
          nudgeSamples |-> nudgeSamples,
          count |-> count] :
        nudgeSamples \in secondsToSamples(sr, RAbs(nudgeAmount))}

\* an output sample of crossfade: sample1 * cos(ratio * pi / 2)
\*                              + sample2 * sin(ratio * pi / 2)
Mix(sample1, sample2, ratio) == [sample1 |-> sample1, sample2 |-> sample2, ratio |-> ratio]

\* whether crossfade with a fade of crossfadeSamples stays inside its three
\* buffers: the copy of clip1, the fade loop's reads of clip1 and clip2 and
\* its writes, the copy of the rest of clip2
crossfadeInBounds(length1, length2, crossfadeSamples) ==
    LET outputLength == length1 + length2 - crossfadeSamples
        fadeStart == length1 - crossfadeSamples
    IN  /\ outputLength >= 0
        /\ length1 > 0 => regionInBounds(outputLength, 0, length1, 0, length1)
        /\ \A i \in 0..(crossfadeSamples - 1) :
              /\ 0 <= fadeStart + i /\ fadeStart + i < length1
              /\ i < length2
              /\ fadeStart + i < outputLength
        /\ length2 - crossfadeSamples > 0 =>
              regionInBounds(outputLength, length1, length2, crossfadeSamples,
                             length2 - crossfadeSamples)

\* the output of a crossfade that stays inside its buffers
crossfadeSamplesOf(clip1, clip2, crossfadeSamples) ==
    LET outputLength == Len(clip1) + Len(clip2) - crossfadeSamples
        fadeStart == Len(clip1) - crossfadeSamples
    IN  [k \in 1..outputLength |->
            IF k <= fadeStart THEN Mix(clip1[k], 0, R(0))
            ELSE IF k <= Len(clip1)
                 THEN Mix(clip1[k], clip2[k - fadeStart],
                          Q(k - fadeStart - 1, crossfadeSamples))
                 ELSE Mix(0, clip2[crossfadeSamples + (k - Len(clip1))], R(1))]

\* the buffers crossfade can return, with the fade length, the numSamples of
\* its last copyFrom and whether it left its buffers
crossfade(sr, clip1, clip2, crossfadeDuration) ==
    UNION {IF crossfadeInBounds(Len(clip1), Len(clip2), crossfadeSamples)
           THEN {[samples |-> crossfadeSamplesOf(clip1, clip2, crossfadeSamples),
                  crossfadeSamples |-> crossfadeSamples,
                  count |-> Len(clip2) - crossfadeSamples,
                  overrun |-> FALSE]}
           ELSE {[samples |-> any,
                  crossfadeSamples |-> crossfadeSamples,
                  count |-> Len(clip2) - crossfadeSamples,
                  overrun |-> TRUE] : any \in UndefinedBuffers} :
        crossfadeSamples \in secondsToSamples(sr, crossfadeDuration)}

\* the longest list of split times, of clips and of positions
MaxList == 2

\* the sequences of at most n elements of S
SeqsUpTo(S, n) == UNION {[1..k -> S] : k \in 0..n}

\* times of the edits, in samples (a time is an offset / sampleRate):
\* before the buffer, on and between samples, beyond the end
EditOffsets == {Q(-3, 2), Q(-1, 2), R(0), Q(1, 2), R(1), Q(3, 2), R(3), R(6)}

SplitOffsets == {R(-1), R(1), R(2), R(6)}

MergeOffsets == {R(-1), R(0), R(1), Q(3, 2)}

ClipBuffers == {<<>>, <<1>>, <<2, 3>>}

Trim(input, startTime, endTime) ==
    /\ Idle
    /\ \E result \in trim(sampleRate, input, startTime, endTime) :
          call' = [op |-> "trim", input |-> input, start |-> startTime,
                   end |-> endTime, res |-> result]
    /\ UNCHANGED <<ppqn, sampleRate, tempoMap, markers, nextMarkerId>>

\* cut of the range just trimmed from the same buffer
Cut ==
    /\ call.op = "trim"
    /\ \E result \in cut(sampleRate, call.input, call.start, call.end) :
          call' = [op |-> "cut", input |-> call.input, start |-> call.start,
                   end |-> call.end, trimmed |-> call.res, res |-> result]
    /\ UNCHANGED <<ppqn, sampleRate, tempoMap, markers, nextMarkerId>>

Split(input, splitTimes) ==
    /\ Idle
    /\ \E result \in split(sampleRate, input, splitTimes) :
          call' = [op |-> "split", input |-> input, times |-> splitTimes,
                   res |-> result]
    /\ UNCHANGED <<ppqn, sampleRate, tempoMap, markers, nextMarkerId>>

Merge(clips, positions) ==
    /\ Idle
    /\ \E result \in merge(sampleRate, clips, positions) :
          call' = [op |-> "merge", clips |-> clips, positions |-> positions,
                   res |-> result.samples, overrun |-> result.overrun]
    /\ UNCHANGED <<ppqn, sampleRate, tempoMap, markers, nextMarkerId>>

Nudge(input, nudgeAmount, fillWithSilence) ==
    /\ Idle
    /\ \E result \in nudge(sampleRate, input, nudgeAmount, fillWithSilence) :
          call' = [op |-> "nudge", input |-> input, amount |-> nudgeAmount,
                   fillWithSilence |-> fillWithSilence, res |-> result.samples,
                   nudgeSamples |-> result.nudgeSamples, count |-> result.count]
    /\ UNCHANGED <<ppqn, sampleRate, tempoMap, markers, nextMarkerId>>

Crossfade(clip1, clip2, crossfadeDuration) ==
    /\ Idle
    /\ \E result \in crossfade(sampleRate, clip1, clip2, crossfadeDuration) :
          call' = [op |-> "crossfade", clip1 |-> clip1, clip2 |-> clip2,
                   duration |-> crossfadeDuration, res |-> result.samples,
                   crossfadeSamples |-> result.crossfadeSamples,
                   count |-> result.count, overrun |-> result.overrun]
    /\ UNCHANGED <<ppqn, sampleRate, tempoMap, markers, nextMarkerId>>

----------------------------------------------------------------------------
(* Transient detection and the transient-based edits                       *)

\* the analysis window and the hop between windows, in samples
windowSize == 1024

hopSize == 512

\* the sum of input[k]^2 for k in lo..hi
RECURSIVE sumOfSquares(_, _, _)
sumOfSquares(input, lo, hi) ==
    IF lo > hi THEN 0
    ELSE IF lo = hi THEN input[lo] * input[lo]
    ELSE LET mid == (lo + hi) \div 2
         IN  sumOfSquares(input, lo, mid) + sumOfSquares(input, mid + 1, hi)

\* onsetStrength > threshold for a window whose squares add up to energySum
\* after one whose squares added up to previousSum (0 before the first):
\*   max(0, sqrt(energySum / windowSize)
\*            - 0.9 * sqrt(previousSum / windowSize)) > threshold,
\* decided in exact arithmetic on the squares: with threshold = n / d >= 0,
\*   100 d^2 energySum - 81 d^2 previousSum - 100 n^2 windowSize
\*       > 180 n d sqrt(previousSum * windowSize)
onsetExceeds(energySum, previousSum, threshold) ==
    LET n == threshold.n
        d == threshold.d
        excess == 100 * d * d * energySum - 81 * d * d * previousSum
                    - 100 * n * n * windowSize
        factor == 180 * n * d
    IN  IF n < 0 THEN TRUE
        ELSE /\ excess > 0
             /\ \/ factor * previousSum = 0
                \/ FracLess(factor * previousSum, excess, excess, factor * windowSize)

\* the loop of detectTransients from window start on
RECURSIVE detectLoop(_, _, _, _, _, _)
detectLoop(sr, input, threshold, start, previousSum, transients) ==
    IF start < Len(input) - windowSize
    THEN LET energySum == sumOfSquares(input, start + 1, start + windowSize)
         IN  detectLoop(sr, input, threshold, start + hopSize, energySum,
                        IF onsetExceeds(energySum, previousSum, threshold)
                        THEN Append(transients, samplesToSeconds(sr, start))
                        ELSE transients)
    ELSE transients

detectTransients(sr, input, threshold) == detectLoop(sr, input, threshold, 0, 0, <<>>)

\* quantizeAudio dropping one sample for each transient
quantizeAudioDropping(sr, input, audioStartTime, quantizeStrength) ==
    LET transients == detectTransients(sr, input, Q(1, 2))
    IN  SubSeq(input, 1, Len(input) - Len(transients))

\* quantizeAudio: output is a copy of the input; the loop over the
\* transients assigns to locals only
quantizeAudio(sr, input, audioStartTime, quantizeStrength) ==
    LET transients == detectTransients(sr, input, Q(1, 2))
        output == input
    IN  output

\* humanize: output is a copy of the input; the loop over the transients
\* draws a random shift into a local
humanize(sr, input, audioStartTime, humanizeAmount) ==
    LET transients == detectTransients(sr, input, Q(1, 2))
        output == input
    IN  output

\* a buffer silent for silent samples, then at full scale for loud samples
StepBuffer(silent, loud) == [k \in 1..(silent + loud) |-> IF k <= silent THEN 0 ELSE 1]

\* where the step buffers jump to full scale, in samples after the first
\* window: on a hop, in each quarter of a hop, at the quarter's edge, one
\* sample before the next hop
JumpOffsets == {0, 128, 255, 256, 400, 511}

\* the samples at full scale after the jump
Sustain == 2560

StepBuffers == {StepBuffer(windowSize + o, Sustain) : o \in JumpOffsets}

DetectThresholds == {Q(1, 2), Q(2, 5)}

AudioStartTimes == {R(0), Q(1, 3)}

Amounts == {Q(1, 10), R(1)}

DetectTransients(input, threshold) ==
    /\ Idle
    /\ call' = [op |-> "detectTransients", input |-> input, threshold |-> threshold,
                res |-> detectTransients(sampleRate, input, threshold)]
    /\ UNCHANGED <<ppqn, sampleRate, tempoMap, markers, nextMarkerId>>

QuantizeAudio(input, audioStartTime, quantizeStrength) ==
    /\ Idle
    /\ call' = [op |-> "quantizeAudio", input |-> input, start |-> audioStartTime,
                amount |-> quantizeStrength,
                res |-> quantizeAudio(sampleRate, input, audioStartTime, quantizeStrength)]
    /\ UNCHANGED <<ppqn, sampleRate, tempoMap, markers, nextMarkerId>>

Humanize(input, audioStartTime, humanizeAmount) ==
    /\ Idle
    /\ call' = [op |-> "humanize", input |-> input, start |-> audioStartTime,
                amount |-> humanizeAmount,
                res |-> humanize(sampleRate, input, audioStartTime, humanizeAmount)]
    /\ UNCHANGED <<ppqn, sampleRate, tempoMap, markers, nextMarkerId>>

----------------------------------------------------------------------------
(* Markers                                                                 *)

\* the most markers added to one lattice
MaxMarkers == 3

\* an AudioMarker without its colour, which no operation reads
AudioMarker(timeInSeconds, label, id) ==
    [timeInSeconds |-> timeInSeconds, label |-> label, id |-> id]

MarkerTimes == {R(0), Q(1, 10), Q(1, 5)}

MarkerLabels == {"Verse"}

\* addMarker with the id one past the number of markers held
addMarkerCounting(timeInSeconds, label) ==
    /\ Idle
    /\ nextMarkerId <= MaxMarkers
    /\ markers' = Append(markers, AudioMarker(timeInSeconds, label, Len(markers) + 1))
    /\ nextMarkerId' = nextMarkerId + 1
    /\ UNCHANGED <<ppqn, sampleRate, tempoMap, call>>

\* markers.push_back({time, label, color, nextMarkerId++})
addMarker(timeInSeconds, label) ==
    /\ Idle
    /\ nextMarkerId <= MaxMarkers
    /\ markers' = Append(markers, AudioMarker(timeInSeconds, label, nextMarkerId))
    /\ nextMarkerId' = nextMarkerId + 1
    /\ UNCHANGED <<ppqn, sampleRate, tempoMap, call>>

\* erase(remove_if(id matches)): the other markers stay in their order
removeMarker(id) ==
    /\ Idle
    /\ markers' = SelectSeq(markers, LAMBDA marker : marker.id # id)
    /\ UNCHANGED <<ppqn, sampleRate, tempoMap, nextMarkerId, call>>

clearMarkers ==
    /\ Idle
    /\ markers' = <<>>
    /\ UNCHANGED <<ppqn, sampleRate, tempoMap, nextMarkerId, call>>

\* the loop of findNearestMarker over the first i markers: the index of
\* nearest (0 for nullptr) and minDist
RECURSIVE nearestScan(_, _, _, _)
nearestScan(held, timeInSeconds, tolerance, i) ==
    IF i = 0 THEN [nearest |-> 0, minDist |-> tolerance]
    ELSE LET before == nearestScan(held, timeInSeconds, tolerance, i - 1)
             dist == RAbs(RSub(held[i].timeInSeconds, timeInSeconds))
         IN  IF RLess(dist, before.minDist)
             THEN [nearest |-> i, minDist |-> dist]
             ELSE before

\* findNearestMarker taking a marker that is as near as the nearest so far
findNearestMarkerLatest(held, timeInSeconds, tolerance) ==
    LET at(i) == RAbs(RSub(held[i].timeInSeconds, timeInSeconds))
        near == {i \in 1..Len(held) :
                    /\ RLess(at(i), tolerance)
                    /\ \A j \in 1..Len(held) : RLeq(at(i), at(j))}
    IN  IF near = {} THEN 0 ELSE CHOOSE i \in near : \A j \in near : j <= i

\* the index in markers of the marker findNearestMarker points to, 0 for
\* nullptr
findNearestMarker(held, timeInSeconds, tolerance) ==
    nearestScan(held, timeInSeconds, tolerance, Len(held)).nearest

FindTimes == {Q(-1, 20), R(0), Q(1, 10), Q(3, 20)}

Tolerances == {R(0), Q(1, 20), Q(1, 10), R(1)}

FindNearestMarker(timeInSeconds, tolerance) ==
    /\ Idle
    /\ call' = [op |-> "findNearestMarker", time |-> timeInSeconds,
                tolerance |-> tolerance,
                res |-> findNearestMarker(markers, timeInSeconds, tolerance)]
    /\ UNCHANGED <<ppqn, sampleRate, tempoMap, markers, nextMarkerId>>

----------------------------------------------------------------------------
(* Beat and bar quantization                                               *)

\* std::round: to the nearest integer, halves away from zero
round(x) ==
    IF x.d = 0 THEN x
    ELSE IF x.n >= 0 THEN R(Floor(RAdd(x, Q(1, 2))))
    ELSE R(-Floor(RAdd(RNeg(x), Q(1, 2))))

\* std::floor and std::ceil
floor(x) == IF x.d = 0 THEN x ELSE R(Floor(x))

ceil(x) == IF x.d = 0 THEN x ELSE R(Ceil(x))

\* the switch quantizeToBeat and quantizeToBar share: the values it can
\* return for a beat or bar of length seconds
snapToMultiple(length, timeInSeconds, mode) ==
    LET ratio == RDiv(timeInSeconds, length)
    IN  CASE mode = "Nearest" -> {RMul(R(num), length) : num \in castInt(round(ratio))}
          [] mode = "Floor" -> {RMul(floor(ratio), length)}
          [] mode = "Ceil" -> {RMul(ceil(ratio), length)}

quantizeToBeat(m, timeInSeconds, mode) ==
    LET tempo == getCurrentTempo(m, timeInSeconds)
        beatLength == RDiv(R(60), tempo.bpm)
    IN  snapToMultiple(beatLength, timeInSeconds, mode)

quantizeToBar(m, timeInSeconds, mode) ==
    LET tempo == getCurrentTempo(m, timeInSeconds)
        beatLength == RDiv(R(60), tempo.bpm)
        barLength == RMul(R(tempo.upperTimeSig), beatLength)
    IN  snapToMultiple(barLength, timeInSeconds, mode)

\* times snapped to beats and bars
SnapTimes == {Q(-1, 3), R(0), Q(1, 4), Q(9, 10), Q(6, 5), R(2)}

\* tempo changes under the snapped times: a beat of 2/3 s, a bar of 3 s
SnapTempoEvents == {TempoEvent(R(1), R(90), 4, 4), TempoEvent(R(1), R(60), 3, 8)}

QuantizeToBeat(timeInSeconds, mode) ==
    /\ Idle
    /\ \E result \in quantizeToBeat(tempoMap, timeInSeconds, mode) :
          call' = [op |-> "quantizeToBeat", arg |-> timeInSeconds, mode |-> mode,
                   res |-> result]
    /\ UNCHANGED <<ppqn, sampleRate, tempoMap, markers, nextMarkerId>>

QuantizeToBar(timeInSeconds, mode) ==
    /\ Idle
    /\ \E result \in quantizeToBar(tempoMap, timeInSeconds, mode) :
          call' = [op |-> "quantizeToBar", arg |-> timeInSeconds, mode |-> mode,
                   res |-> result]
    /\ UNCHANGED <<ppqn, sampleRate, tempoMap, markers, nextMarkerId>>

\* the same quantizer, in the same mode, applied to the time just returned
QuantizeAgain ==
    /\ call.op \in {"quantizeToBeat", "quantizeToBar"}
    /\ \E result \in IF call.op = "quantizeToBeat"
                     THEN quantizeToBeat(tempoMap, call.res, call.mode)
                     ELSE quantizeToBar(tempoMap, call.res, call.mode) :
          call' = [op |-> "quantizeAgain", of |-> call.op, arg |-> call.arg,
                   mode |-> call.mode, first |-> call.res, res |-> result]
    /\ UNCHANGED <<ppqn, sampleRate, tempoMap, markers, nextMarkerId>>

----------------------------------------------------------------------------
(* The lattice under configuration and lookups                             *)

SetPPQN == \E p \in SetPPQNs : setPPQN(p)

SetSampleRate == \E r \in SetSampleRates : setSampleRate(r)

SetTempo == \E a \in SetTempoArgs : setTempo(a[1], a[2])

AddTempoChange == \E e \in TempoEvents : addTempoChange(e)

LookupTempo == \E t \in LookupTimes : GetTempoAt(t)

Next ==
    \/ SetPPQN
    \/ SetSampleRate
    \/ SetTempo
    \/ AddTempoChange
    \/ clearTempoMap
    \/ LookupTempo
    \/ GetTickDuration
    \/ Return

Spec == Init /\ [][Next]_vars

\* the same lattice with a caller that never calls clearTempoMap
NextNoClear ==
    \/ SetPPQN
    \/ SetSampleRate
    \/ SetTempo
    \/ AddTempoChange
    \/ LookupTempo
    \/ GetTickDuration
    \/ Return

SpecNoClear == Init /\ [][NextNoClear]_vars

\* the lattice under configuration and conversions
NextConv ==
    \/ SetPPQN
    \/ SetSampleRate
    \/ SetTempo
    \/ AddTempoChange
    \/ clearTempoMap
    \/ \E t \in ConvTimes, d \in TimeDomains : ConvertFromSeconds(t, d)
    \/ ConvertBack
    \/ \E t \in MusicalTimes : SecondsToMusical(t)
    \/ MusicalToSeconds
    \/ Return

SpecConv == Init /\ [][NextConv]_vars

\* the lattice under tempo and PPQN changes, grid requests and quantization,
\* built with a PPQN of 12 or 24 at 48 kHz
InitGrid ==
    /\ ppqn \in {12, 24}
    /\ sampleRate = R(48000)
    /\ tempoMap = <<TempoEvent(R(0), R(120), 4, 4)>>
    /\ markers = <<>>
    /\ nextMarkerId = 1
    /\ call = NoCall

NextGrid ==
    \/ SetPPQN
    \/ SetTempo
    \/ AddTempoChange
    \/ clearTempoMap
    \/ \E a, b \in GridTimes : GeneratePPQNGrid(a, b)
    \/ \E a, b \in GridTimes : GenerateBeatGrid(a, b)
    \/ \E a, b \in GridTimes : GenerateBarGrid(a, b)
    \/ \E t \in QuantTimes, mode \in QuantizeModes : QuantizeToGrid(t, mode)
    \/ Return

SpecGrid == InitGrid /\ [][NextGrid]_vars

\* the lattice quantizing values
NextValue ==
    \/ \E v \in ValueInputs, r \in ValueResolutions : QuantizeValue(v, r)
    \/ QuantizeValueAgain
    \/ Return

SpecValue == Init /\ [][NextValue]_vars

\* the lattice under tempo changes quantizing breakpoint curves, built with
\* a PPQN of 24 or 48 at 48 kHz
InitCurve ==
    /\ ppqn \in {24, 48}
    /\ sampleRate = R(48000)
    /\ tempoMap = <<TempoEvent(R(0), R(120), 4, 4)>>
    /\ markers = <<>>
    /\ nextMarkerId = 1
    /\ call = NoCall

NextCurve ==
    \/ SetTempo
    \/ \E e \in CurveTempoEvents : addTempoChange(e)
    \/ clearTempoMap
    \/ \E r \in ValueResolutions, simplify \in BOOLEAN :
            \E input \in Curves(r) : QuantizeBreakpoints(input, r, simplify)
    \/ Return

SpecCurve == InitCurve /\ [][NextCurve]_vars

\* the lattice editing buffers, built with the default PPQN at 2 Hz or 48 kHz
InitEdit ==
    /\ ppqn = 960
    /\ sampleRate \in {R(2), R(48000)}
    /\ tempoMap = <<TempoEvent(R(0), R(120), 4, 4)>>
    /\ markers = <<>>
    /\ nextMarkerId = 1
    /\ call = NoCall

\* the time of an offset in samples
AtOffset(offset) == RDiv(offset, sampleRate)

NextEdit ==
    \/ SetSampleRate
    \/ \E input \in Buffers, a, b \in EditOffsets : Trim(input, AtOffset(a), AtOffset(b))
    \/ Cut
    \/ \E input \in Buffers, offsets \in SeqsUpTo(SplitOffsets, MaxList) :
            Split(input, [i \in 1..Len(offsets) |-> AtOffset(offsets[i])])
    \/ \E clips \in SeqsUpTo(ClipBuffers, MaxList), offsets \in SeqsUpTo(MergeOffsets, MaxList) :
            Merge(clips, [i \in 1..Len(offsets) |-> AtOffset(offsets[i])])
    \/ \E input \in Buffers, a \in EditOffsets, fillWithSilence \in BOOLEAN :
            Nudge(input, AtOffset(a), fillWithSilence)
    \/ \E clip1, clip2 \in ClipBuffers, a \in EditOffsets :
            Crossfade(clip1, clip2, AtOffset(a))
    \/ Return

SpecEdit == InitEdit /\ [][NextEdit]_vars

AddMarker == \E t \in MarkerTimes, label \in MarkerLabels : addMarker(t, label)

\* the lattice keeping markers
NextMarkers ==
    \/ AddMarker
    \/ \E id \in 0..(MaxMarkers + 1) : removeMarker(id)
    \/ clearMarkers
    \/ \E t \in FindTimes, tolerance \in Tolerances : FindNearestMarker(t, tolerance)
    \/ Return

SpecMarkers == Init /\ [][NextMarkers]_vars

\* the lattice detecting transients in step buffers and short buffers and
\* running the transient-based edits on them, built with the default PPQN
\* at 48 kHz
InitAudio ==
    /\ ppqn = 960
    /\ sampleRate = R(48000)
    /\ tempoMap = <<TempoEvent(R(0), R(120), 4, 4)>>
    /\ markers = <<>>
    /\ nextMarkerId = 1
    /\ call = NoCall

AudioBuffers == StepBuffers \union {<<>>, <<1>>}

NextAudio ==
    \/ addMarker(R(0), "Verse")
    \/ clearMarkers
    \/ \E input \in AudioBuffers, threshold \in DetectThresholds :
            DetectTransients(input, threshold)
    \/ \E input \in AudioBuffers, start \in AudioStartTimes, amount \in Amounts :
            QuantizeAudio(input, start, amount)
    \/ \E input \in AudioBuffers, start \in AudioStartTimes, amount \in Amounts :
            Humanize(input, start, amount)
    \/ Return

SpecAudio == InitAudio /\ [][NextAudio]_vars

\* the lattice converting between seconds and encoded bars, beats and ticks
\* under tempo changes, built with a PPQN below and above 1000 at 48 kHz
BridgePPQNs == {24, 960, 1920}

\* seconds values encoded: zero, inside beats, on beat and bar boundaries,
\* and 1/7680 s (less than a tick at each of the PPQNs) below the beat
\* boundary 1/2 s, which the epsilon nudge pushes across it
BridgeTimes == {R(0), Q(1, 3), Q(3839, 7680), Q(1, 2), R(1), R(2), R(3), Q(10, 3), R(6)}

InitBridge ==
    /\ ppqn \in BridgePPQNs
    /\ sampleRate = R(48000)
    /\ tempoMap = <<TempoEvent(R(0), R(120), 4, 4)>>
    /\ markers = <<>>
    /\ nextMarkerId = 1
    /\ call = NoCall

NextBridge ==
    \/ SetTempo
    \/ AddTempoChange
    \/ clearTempoMap
    \/ \E t \in BridgeTimes : ConvertFromSeconds(t, "BarsBeatsTicks")
    \/ ConvertBack
    \/ Return

SpecBridge == InitBridge /\ [][NextBridge]_vars

\* the lattice under tempo changes snapping times to beats and bars
NextSnap ==
    \/ SetTempo
    \/ \E e \in SnapTempoEvents : addTempoChange(e)
    \/ clearTempoMap
    \/ \E t \in SnapTimes, mode \in QuantizeModes : QuantizeToBeat(t, mode)
    \/ \E t \in SnapTimes, mode \in QuantizeModes : QuantizeToBar(t, mode)
    \/ QuantizeAgain
    \/ Return

SpecSnap == InitGrid /\ [][NextSnap]_vars

----------------------------------------------------------------------------
(* Tempo map and configuration properties                                  *)

Events(m) == {m[i] : i \in 1..Len(m)}

HasDefaultEvent == \E i \in 1..Len(tempoMap) : tempoMap[i] = DefaultTempo

\* C1: after construction and any sequence of setTempo, addTempoChange and
\* clearTempoMap calls, the tempo map is sorted ascending by timeInSeconds.
C1_TempoMapSorted ==
    \A i, j \in 1..Len(tempoMap) :
        i < j => ~RLess(tempoMap[j].timeInSeconds, tempoMap[i].timeInSeconds)

\* an event earlier than the default one was added and now comes first
C1_Witness ==
    /\ call.op = "addTempoChange"
    /\ Len(tempoMap) = 2
    /\ tempoMap[1].timeInSeconds = R(-1)
    /\ tempoMap[2] = DefaultTempo

\* C2 as stated: while the caller never calls clearTempoMap, the tempo map
\* is non-empty and contains the default event (time 0, 120 BPM, 4/4).
C2_Original == Len(tempoMap) > 0 /\ HasDefaultEvent

\* C2 as amended: while the caller never calls clearTempoMap, the tempo map
\* is non-empty; it holds the default event from construction on, and only a
\* setTempo call (which replaces the whole map by its one event) removes it.
C2_NonEmptyDefaultUntilSetTempo ==
    /\ HasDefaultEvent
    /\ [](Len(tempoMap) > 0)
    /\ [][(HasDefaultEvent /\ call'.op # "setTempo") => HasDefaultEvent']_vars

\* setTempo has replaced the default event by another one
C2_Witness ==
    /\ call.op = "setTempo"
    /\ Len(tempoMap) = 1
    /\ ~HasDefaultEvent

\* C3: getTempoAt(t) returns the event with the greatest timeInSeconds that
\* is <= t; if no event qualifies, the earliest event; if the map is empty,
\* {0, 120, 4, 4}.
C3_TempoLookup ==
    call.op = "getTempoAt" =>
        LET t == call.arg
            r == call.res
            atOrBefore == {e \in Events(tempoMap) : RLeq(e.timeInSeconds, t)}
        IN  IF tempoMap = <<>> THEN r = TempoEvent(R(0), R(120), 4, 4)
            ELSE IF atOrBefore # {}
            THEN /\ r \in atOrBefore
                 /\ \A e \in atOrBefore : RLeq(e.timeInSeconds, r.timeInSeconds)
            ELSE /\ r \in Events(tempoMap)
                 /\ \A e \in Events(tempoMap) : RLeq(r.timeInSeconds, e.timeInSeconds)

\* a lookup with two events at or before t returned the later one
C3_Witness ==
    /\ call.op = "getTempoAt"
    /\ Len(tempoMap) = 2
    /\ RLess(tempoMap[1].timeInSeconds, tempoMap[2].timeInSeconds)
    /\ RLeq(tempoMap[2].timeInSeconds, call.arg)
    /\ call.res = tempoMap[2]
    /\ call.res # tempoMap[1]

\* C4 as stated: in every reachable state, starting from construction with
\* any ppqn and sampleRate arguments, PPQN >= 24 and sampleRate > 0.
C4_Original == ppqn >= 24 /\ RLess(R(0), sampleRate)

\* C5: getTickDuration() equals 60 / (bpm of the tempo in effect at time 0)
\* / (current PPQN) after any sequence of configuration calls; with PPQN 960
\* and 120 bpm it is 1/1920 s.
C5_TickDurationRecomputed ==
    call.op = "getTickDuration" =>
        LET bpm == getCurrentTempo(tempoMap, R(0)).bpm
        IN  /\ RMul(RMul(call.res, bpm), R(ppqn)) = R(60)
            /\ (ppqn = 960 /\ bpm = R(120)) => call.res = Q(1, 1920)

\* the tick length was read after PPQN and the tempo at 0 were both changed,
\* with a later event present in the map
C5_Witness ==
    /\ call.op = "getTickDuration"
    /\ ppqn = 48
    /\ Len(tempoMap) = 2
    /\ tempoMap[1] = TempoEvent(R(0), R(60), 4, 4)
    /\ tempoMap[2].bpm = R(120)
    /\ call.res = Q(1, 48)

----------------------------------------------------------------------------
(* Conversion properties                                                   *)

RoundTripDomains == {"AudioSamples", "MusicalTicks", "SMPTEFrames"}

\* C6 as stated: for every time t, every tempo map and each domain D in
\* {AudioSamples, MusicalTicks, SMPTEFrames},
\* convert(convert(t, Seconds, D), D, Seconds) equals t.
C6_Original ==
    (call.op = "roundTrip" /\ call.domain \in RoundTripDomains) => call.res = call.t

\* C6 as amended: the round trip equals t for SMPTEFrames, and for
\* AudioSamples unless the sample rate is 0 (then it is NaN); for
\* MusicalTicks it equals t * bpm(tempo in effect at t) / bpm(tempo in effect
\* at 0), which is t when the two tempos have the same bpm or t = 0.
C6_RoundTrip ==
    call.op = "roundTrip" =>
        LET t == call.t
            bpmAtT == getCurrentTempo(tempoMap, t).bpm
            bpmAt0 == getCurrentTempo(tempoMap, R(0)).bpm
        IN  /\ call.domain = "SMPTEFrames" => call.res = t
            /\ call.domain = "AudioSamples" =>
                   IF sampleRate = R(0) THEN call.res = NaN ELSE call.res = t
            /\ call.domain = "MusicalTicks" =>
                   /\ RMul(call.res, bpmAt0) = RMul(t, bpmAtT)
                   /\ (bpmAtT = bpmAt0 \/ t = R(0)) => call.res = t

\* a tick round trip across a tempo change came back at another time
C6_Witness ==
    /\ call.op = "roundTrip"
    /\ call.domain = "MusicalTicks"
    /\ Len(tempoMap) = 2
    /\ call.t = R(2)
    /\ call.res = R(1)

\* C7: with a single-event tempo map, musicalToSeconds(secondsToMusical(t))
\* equals t for every t >= 0, also just below, at and just above a bar
\* boundary.
C7_MusicalRoundTrip ==
    (call.op = "musicalToSeconds" /\ Len(tempoMap) = 1 /\ RLeq(R(0), call.t))
        => call.res = call.t

\* a time just below the 2 s bar boundary was pushed into bar 2 by the
\* epsilon nudge and still came back unchanged
C7_Witness ==
    /\ call.op = "musicalToSeconds"
    /\ tempoMap = <<DefaultTempo>>
    /\ call.t = Q(63, 32)
    /\ call.arg.bars = 2
    /\ call.arg.remainder # R(0)
    /\ call.res = call.t

\* the bar length of a tempo event, in seconds
BarLengthOf(e) == RMul(R(e.upperTimeSig), RDiv(R(240), RMul(e.bpm, R(e.lowerTimeSig))))

----------------------------------------------------------------------------
(* Grid and quantization properties                                        *)

\* the unit length a grid request is about, from the tempo in effect at start
GridUnit ==
    CASE call.op = "generatePPQNGrid" -> RDiv(getBeatDuration(tempoMap, call.start), R(ppqn))
      [] call.op = "generateBeatGrid" -> getBeatDuration(tempoMap, call.start)
      [] call.op = "generateBarGrid" -> getBarDuration(tempoMap, call.start)

\* the integer multiples of unit that lie in [lo, hi]
MultiplesIn(unit, lo, hi) ==
    {RMul(R(k), unit) : k \in {j \in (Floor(RDiv(lo, unit)) - 1)..(Ceil(RDiv(hi, unit)) + 1) :
                                  RLeq(lo, RMul(R(j), unit)) /\ RLeq(RMul(R(j), unit), hi)}}

\* C9: each grid generator returns, strictly ascending, exactly the integer
\* multiples of its unit length (tick, beat or bar of the tempo in effect at
\* start) that lie in [start, end]; generateBeatGrid(0, 2) at 120 bpm is
\* [0, 0.5, 1.0, 1.5, 2.0].
C9_GridExact ==
    call.op \in {"generatePPQNGrid", "generateBeatGrid", "generateBarGrid"} =>
        LET g == call.res
        IN  /\ \A i \in 1..(Len(g) - 1) : RLess(g[i], g[i + 1])
            /\ {g[i] : i \in 1..Len(g)} = MultiplesIn(GridUnit, call.start, call.end)
            /\ (call.op = "generateBeatGrid" /\ call.start = R(0) /\ call.end = R(2)
                  /\ getCurrentTempo(tempoMap, R(0)).bpm = R(120))
                 => g = <<R(0), Q(1, 2), R(1), Q(3, 2), R(2)>>

\* a beat grid from a negative start to an end that is itself a beat
C9_Witness ==
    /\ call.op = "generateBeatGrid"
    /\ call.start = Q(-1, 3)
    /\ call.end = R(2)
    /\ call.res = <<R(0), Q(1, 2), R(1), Q(3, 2), R(2)>>

\* the tick length of the tempo in effect at t
TickLengthAt(t) == RDiv(getBeatDuration(tempoMap, t), R(ppqn))

\* C10 as stated, for a PPQN the setters allow: for every time t, tempo map
\* and mode, quantizeToGrid(t, mode) is an integer multiple of the tick
\* length (here: of the tempo in effect at t - 1, the one the grid is built
\* from, at t, or at 0), never an off-grid value such as t itself.
C10_Original ==
    (call.op = "quantizeToGrid" /\ ppqn >= 24) =>
        \E at \in {RSub(call.arg, R(1)), call.arg, R(0)} :
            IsInt(RDiv(call.res, TickLengthAt(at)))

\* the window of grid points the pending quantizeToGrid call searched
QuantWindow ==
    generatePPQNGrid(tempoMap, ppqn, RSub(call.arg, R(1)), RAdd(call.arg, R(1)))

\* C11 as stated: for any time t and any tempo map, tempo changes included,
\* quantizeToGrid(t, Nearest) is an integer multiple of the tick length that
\* getTickDuration() reports (here only for a PPQN the setters allow and
\* calls that found a grid point).
C11_Original ==
    (call.op = "quantizeToGrid" /\ call.mode = "Nearest" /\ ppqn >= 24
        /\ Len(QuantWindow) > 0) =>
        IsInt(RDiv(call.res, getTickDuration(tempoMap, ppqn)))

\* C11: quantizeToGrid(t, Nearest) is an integer multiple of the tick length
\* of the tempo in effect at t - 1, the start of the window its grid is built
\* from, and so of getTickDuration() when that tempo has the bpm of the tempo
\* in effect at 0; a call whose window holds no grid point returns t.
C11_NearestOnWindowGrid ==
    (call.op = "quantizeToGrid" /\ call.mode = "Nearest") =>
        /\ Len(QuantWindow) > 0 =>
              IsInt(RDiv(call.res, TickLengthAt(RSub(call.arg, R(1)))))
        /\ (Len(QuantWindow) > 0
                /\ getCurrentTempo(tempoMap, RSub(call.arg, R(1))).bpm
                       = getCurrentTempo(tempoMap, R(0)).bpm) =>
              IsInt(RDiv(call.res, getTickDuration(tempoMap, ppqn)))
        /\ Len(QuantWindow) = 0 => call.res = call.arg

\* -1/3 quantized on the 120 bpm grid of the tempo before 0 while the tempo
\* at 0 is 1 bpm: a grid point that is no multiple of getTickDuration()
C11_Witness ==
    /\ call.op = "quantizeToGrid"
    /\ call.mode = "Nearest"
    /\ call.arg = Q(-1, 3)
    /\ Len(tempoMap) = 2
    /\ getCurrentTempo(tempoMap, Q(-4, 3)).bpm = R(120)
    /\ getCurrentTempo(tempoMap, R(0)).bpm = R(1)
    /\ call.res = Q(-1, 3)
    /\ ~IsInt(RDiv(call.res, getTickDuration(tempoMap, ppqn)))

\* C12 as stated, for a PPQN the setters allow and a window that holds a grid
\* point: quantizeToGrid(t, Floor) <= t <= quantizeToGrid(t, Ceil), and both
\* results lie less than one tick from t.
C12_Original ==
    (call.op = "quantizeToGrid" /\ ppqn >= 24 /\ Len(QuantWindow) > 0) =>
        LET tick == TickLengthAt(RSub(call.arg, R(1)))
        IN  /\ call.mode = "Floor" =>
                  /\ RLeq(call.res, call.arg)
                  /\ RLess(RSub(call.arg, call.res), tick)
            /\ call.mode = "Ceil" =>
                  /\ RLeq(call.arg, call.res)
                  /\ RLess(RSub(call.res, call.arg), tick)

----------------------------------------------------------------------------
(* Value and breakpoint quantization properties                            *)

\* C13 as stated: quantizeValue is idempotent, for every v in [-1, 1] and
\* every resolution of Bit7, Bit14, Bit24 and Bit32,
\* quantizeValue(quantizeValue(v, R), R) == quantizeValue(v, R).
C13_Original ==
    call.op = "quantizeValueAgain" => REq(call.res, call.first)

\* C14 as stated: for bits of 7, 14, 24 and 32 the step count of
\* quantizeValue is the positive integer 2^bits - 1 and the step index of
\* every v in [-1, 1] lies in 0..2^bits - 1.
C14_Original ==
    call.op = "quantizeValue" =>
        /\ call.steps > 0
        /\ call.resolution < 31 => call.steps = 2^call.resolution - 1
        /\ call.quantized \in 0..call.steps

\* the first k points of the pending quantizeBreakpoints call's input, each
\* with its time on the grid and its value quantized (the values of the
\* inputs are finite, so each has one quantized value per step count)
RECURSIVE QuantizedUpTo(_)
QuantizedUpTo(k) ==
    IF k = 0 THEN <<>>
    ELSE Append(QuantizedUpTo(k - 1),
            <<quantizeToGrid(tempoMap, ppqn, call.input[k][1], "Nearest"),
              (CHOOSE qv \in quantizeValueWith(call.input[k][2], call.steps) : TRUE).res>>)

QuantizedInput == QuantizedUpTo(Len(call.input))

\* points i and j of q are less than half a tick duration and less than the
\* threshold of the resolution apart
WithinThresholds(q, i, j) ==
    LET threshold == CASE call.resolution = 7 -> Q(2, 100)
                       [] call.resolution = 14 -> Q(1, 1000)
                       [] call.resolution = 24 -> Q(1, 10000)
                       [] call.resolution = 32 -> Q(1, 100000)
    IN  /\ RLess(RAbs(RSub(q[i][1], q[j][1])), RDiv(getTickDuration(tempoMap, ppqn), R(2)))
        /\ RLessWide(RAbs(RSub(q[i][2], q[j][2])), threshold)

\* the last index of K before i
LastBefore(K, i) == CHOOSE j \in K : j < i /\ \A l \in K : l < i => l <= j

\* the points of q at the indices K, in order
PointsAt(q, K) ==
    [k \in 1..Cardinality(K) |->
        q[CHOOSE x \in K : Cardinality({y \in K : y <= x}) = k]]

\* C15: quantizeBreakpoints with simplify returns the quantized points of a
\* set K of input indices, in input order, where K holds the first index and
\* each later index i exactly unless point i is less than half a tick
\* duration and less than the threshold of the resolution (0.02, 0.001,
\* 0.0001, 0.00001) from the point of the last index of K before i; without
\* simplify it returns every quantized point.
C15_GreedyPass ==
    call.op = "quantizeBreakpoints" =>
        LET n == Len(call.input)
            q == QuantizedInput
        IN  IF call.simplify
            THEN \E K \in SUBSET (1..n) :
                    /\ n > 0 => 1 \in K
                    /\ \A i \in 2..n : i \in K <=> ~WithinThresholds(q, i, LastBefore(K, i))
                    /\ call.res = PointsAt(q, K)
            ELSE Len(call.res) = n /\ call.res = q

\* of three points on one grid point the second was dropped for its value,
\* within the threshold of the first one's, and the third was kept although
\* its value is within the threshold of the second one's
C15_Witness ==
    /\ call.op = "quantizeBreakpoints"
    /\ call.simplify
    /\ Len(call.input) = 3
    /\ LET q == QuantizedInput
       IN  /\ call.res = <<q[1], q[3]>>
           /\ WithinThresholds(q, 2, 1)
           /\ WithinThresholds(q, 3, 2)
           /\ ~WithinThresholds(q, 3, 1)

\* the pending quantizeBreakpoints call simplified a curve of two points
\* 1 ms apart whose values differ by less than the threshold of a resolution
\* of 7, 14 or 24 bits
TwoPointsOneMsApart ==
    /\ call.op = "quantizeBreakpoints"
    /\ call.simplify
    /\ call.resolution # 32
    /\ Len(call.input) = 2
    /\ RSub(call.input[2][1], call.input[1][1]) = Q(1, 1000)
    /\ RLessWide(RAbs(RSub(call.input[2][2], call.input[1][2])),
                 calculatePerceptualThreshold(call.resolution))

\* C16 as stated: quantizeBreakpoints with simplify returns exactly one point
\* for two points 1 ms apart whose values differ by less than the threshold.
C16_Original == TwoPointsOneMsApart => Len(call.res) = 1

\* C16: for two points 1 ms apart whose values differ by less than the
\* threshold, quantizeBreakpoints with simplify returns one point exactly
\* when the quantized times differ by less than half a tick duration and the
\* quantized values by less than the threshold, and both points otherwise.
C16_CollapseOnSameGridPoint ==
    TwoPointsOneMsApart =>
        LET q == QuantizedInput
        IN  IF WithinThresholds(q, 2, 1) THEN call.res = <<q[1]>> ELSE call.res = q

\* two points at 0 and 1 ms with equal values, both quantized to the grid
\* point 0, came back as one point
C16_Witness ==
    /\ TwoPointsOneMsApart
    /\ call.input[1][1] = R(0)
    /\ call.input[1][2] = call.input[2][2]
    /\ Len(call.res) = 1
    /\ call.res[1][1] = R(0)

\* C17 as stated, for a PPQN the setters allow and input times that all have
\* a grid point in their window: the output of quantizeBreakpoints for an
\* input with non-decreasing times has non-decreasing times.
C17_Original ==
    (/\ call.op = "quantizeBreakpoints"
     /\ ppqn >= 24
     /\ \A i \in 1..Len(call.input) :
            Len(generatePPQNGrid(tempoMap, ppqn, RSub(call.input[i][1], R(1)),
                                 RAdd(call.input[i][1], R(1)))) > 0
     /\ \A i \in 1..(Len(call.input) - 1) :
            RLeq(call.input[i][1], call.input[i + 1][1]))
        => \A i \in 1..(Len(call.res) - 1) : RLeq(call.res[i][1], call.res[i + 1][1])

----------------------------------------------------------------------------
(* Buffer editing properties                                               *)

\* the sample index of a time, rounded half up and clamped to lo..hi
ClampedIndex(time, lo, hi) ==
    LET index == Floor(RAdd(RMul(time, sampleRate), Q(1, 2)))
    IN  IF index < lo THEN lo ELSE IF index > hi THEN hi ELSE index

\* C18: for every buffer of N samples and all times start and end, negative,
\* beyond the end and end < start included, trim returns the samples at
\* indices [clamp(start), clamp(end)), cut of the same range returns the
\* other samples in their order, and the two lengths add up to N.
C18_TrimCutPartition ==
    call.op = "cut" =>
        LET N == Len(call.input)
            s == ClampedIndex(call.start, 0, N)
            e == ClampedIndex(call.end, s, N)
        IN  /\ Len(call.trimmed) + Len(call.res) = N
            /\ call.trimmed = [i \in 1..(e - s) |-> call.input[s + i]]
            /\ call.res = [i \in 1..(N - (e - s)) |->
                              IF i <= s THEN call.input[i] ELSE call.input[i + (e - s)]]

\* samples 1 and 2 (from 0) of four were trimmed and then cut out
C18_Witness ==
    /\ call.op = "cut"
    /\ call.input = <<1, 2, 3, 4>>
    /\ call.trimmed = <<2, 3>>
    /\ call.res = <<1, 4>>

\* the samples of the first k segments together
RECURSIVE TotalLength(_, _)
TotalLength(segments, k) ==
    IF k = 0 THEN 0 ELSE TotalLength(segments, k - 1) + Len(segments[k])

\* C19 as stated: for every buffer and every list of split times, in any
\* order, split returns len(times) + 1 segments whose sample counts add up to
\* the sample count of the buffer.
C19_Original ==
    call.op = "split" =>
        /\ Len(call.res) = Len(call.times) + 1
        /\ TotalLength(call.res, Len(call.res)) = Len(call.input)

\* the sample secondsToSamples gives for a position of the pending merge
StartOf(i) == CHOOSE start \in secondsToSamples(sampleRate, call.positions[i]) : TRUE

\* the clips of the pending merge that cover output sample k (from 0)
Covering(k) ==
    {i \in 1..Len(call.clips) : StartOf(i) <= k /\ k < StartOf(i) + Len(call.clips[i])}

RECURSIVE SumOver(_, _)
SumOver(I, k) ==
    IF I = {} THEN 0
    ELSE LET i == CHOOSE j \in I : TRUE
         IN  call.clips[i][k - StartOf(i) + 1] + SumOver(I \ {i}, k)

\* C20 as stated: merge returns an empty buffer for no clips or for lists of
\* different lengths; otherwise a buffer as long as the latest clip end, the
\* maximum of secondsToSamples(positions[i]) + length of clips[i], holding at
\* each index the sum of the samples of the clips that cover it.
C20_Original ==
    call.op = "merge" =>
        IF Len(call.clips) = 0 \/ Len(call.positions) # Len(call.clips)
        THEN call.res = <<>>
        ELSE /\ \E i \in 1..Len(call.clips) :
                    /\ Len(call.res) = StartOf(i) + Len(call.clips[i])
                    /\ \A j \in 1..Len(call.clips) :
                          StartOf(j) + Len(call.clips[j]) <= Len(call.res)
             /\ \A k \in 0..(Len(call.res) - 1) :
                    call.res[k + 1] = SumOver(Covering(k), k)
             /\ ~call.overrun

\* C21 as stated: every edit stays inside its buffers and copies regions of
\* non-negative length.  trim and cut: the clamped indices satisfy
\* 0 <= startSample <= endSample <= length; merge: no clip is added outside
\* the output; nudge: the numSamples handed to copyFrom is not negative;
\* crossfade: no read or write outside a clip or the output, and the
\* numSamples of the last copy is not negative.
C21_Original ==
    /\ call.op \in {"trim", "cut"} =>
          \A s \in secondsToSamples(sampleRate, call.start),
             e \in secondsToSamples(sampleRate, call.end) :
                LET startSample == jlimit(0, Len(call.input), s)
                    endSample == jlimit(startSample, Len(call.input), e)
                IN  0 <= startSample /\ startSample <= endSample
                        /\ endSample <= Len(call.input)
    /\ call.op = "merge" => ~call.overrun
    /\ call.op = "nudge" => call.count >= 0
    /\ call.op = "crossfade" => ~call.overrun /\ call.count >= 0

\* C22 as stated: the nudged buffer has the input's length, holds the input
\* shifted by secondsToSamples(|amount|) samples (forward when amount > 0,
\* otherwise backward) and the input's own samples where nothing was
\* shifted to, and is the same for both values of fillWithSilence.
C22_Original ==
    call.op = "nudge" =>
        LET N == Len(call.input)
            n == call.nudgeSamples
        IN  /\ n \in secondsToSamples(sampleRate, RAbs(call.amount))
            /\ Len(call.res) = N
            /\ \A k \in 1..N :
                  call.res[k] =
                    IF RLess(R(0), call.amount)
                    THEN (IF k > n THEN call.input[k - n] ELSE call.input[k])
                    ELSE (IF k + n <= N THEN call.input[k + n] ELSE call.input[k])
            /\ call.res \in {r.samples : r \in nudge(sampleRate, call.input, call.amount,
                                                    ~call.fillWithSilence)}

\* C22, amended: the nudged buffer has the input's length and holds the
\* input shifted by secondsToSamples(|amount|) samples (forward when
\* amount > 0, otherwise backward); every sample nothing was shifted to is
\* silent (all of them when the shift is longer than the buffer); the result
\* is the same for both values of fillWithSilence.
C22_NudgeLeavesSilence ==
    call.op = "nudge" =>
        LET N == Len(call.input)
            n == call.nudgeSamples
        IN  /\ n \in secondsToSamples(sampleRate, RAbs(call.amount))
            /\ Len(call.res) = N
            /\ \A k \in 1..N :
                  call.res[k] =
                    IF RLess(R(0), call.amount)
                    THEN (IF k > n THEN call.input[k - n] ELSE 0)
                    ELSE (IF k + n <= N THEN call.input[k + n] ELSE 0)
            /\ call.res \in {r.samples : r \in nudge(sampleRate, call.input, call.amount,
                                                    ~call.fillWithSilence)}

\* a buffer of three samples or more nudged forward by two samples, asked
\* not to fill with silence
C22_Witness ==
    /\ call.op = "nudge"
    /\ RLess(R(0), call.amount)
    /\ call.nudgeSamples = 2
    /\ Len(call.input) >= 3
    /\ ~call.fillWithSilence
    /\ call.res[1] = 0 /\ call.res[3] = call.input[1]

----------------------------------------------------------------------------
(* Transient and marker properties                                         *)

\* C23: a quantizeAudio or humanize call returns a buffer with the length
\* and the samples of its input, whatever the start time and the strength or
\* amount, and leaves the tempo map, the PPQN, the sample rate, the markers
\* and the next marker id as they were.
C23_TransientEditsAreNoOps ==
    [][call'.op \in {"quantizeAudio", "humanize"} /\ call.op = "none" =>
            /\ Len(call'.res) = Len(call'.input)
            /\ call'.res = call'.input
            /\ UNCHANGED <<tempoMap, ppqn, sampleRate, markers, nextMarkerId>>]_vars

\* quantizeAudio has returned from a step buffer in which it found a
\* transient, on a lattice that holds a marker
C23_Witness ==
    /\ call.op = "quantizeAudio"
    /\ call.input \in StepBuffers
    /\ detectTransients(sampleRate, call.input, Q(1, 2)) # <<>>
    /\ call.res = call.input
    /\ markers # <<>>

\* the sample at which a step buffer jumps to full scale
JumpOf(input) == Len(input) - sumOfSquares(input, 1, Len(input))

\* C24 as stated: in a buffer that is silent for a window or more and then
\* at full scale for a sustained period, detectTransients with the default
\* threshold finds exactly one transient, within one window of the jump,
\* wherever the jump lies between two hops.
C24_Original ==
    /\ call.op = "detectTransients"
    /\ call.input \in StepBuffers
    /\ call.threshold = Q(1, 2)
    => /\ Len(call.res) = 1
       /\ LET found == RMul(call.res[1], sampleRate)
          IN  RLeq(RAbs(RSub(found, R(JumpOf(call.input)))), R(windowSize))

\* the ids of the markers held
MarkerIds == {markers[i].id : i \in 1..Len(markers)}

\* C25: the markers held have pairwise distinct ids, all below nextMarkerId;
\* nextMarkerId never decreases, and each step that adds a marker gives it
\* the id nextMarkerId, above every id held or assigned before, and moves
\* nextMarkerId past it, so that no id is assigned twice.
C25_MarkerIdsUnique ==
    /\ [](/\ \A i, j \in 1..Len(markers) : markers[i].id = markers[j].id => i = j
          /\ \A id \in MarkerIds : id < nextMarkerId)
    /\ [][/\ nextMarkerId' >= nextMarkerId
          /\ Len(markers') > Len(markers) =>
                /\ Len(markers') = Len(markers) + 1
                /\ SubSeq(markers', 1, Len(markers)) = markers
                /\ markers'[Len(markers')].id = nextMarkerId
                /\ \A id \in MarkerIds : id < markers'[Len(markers')].id
                /\ nextMarkerId' > markers'[Len(markers')].id]_vars

\* a marker was added after the removal of an earlier one: ids 1 and 3 held
C25_Witness ==
    /\ Len(markers) = 2
    /\ markers[1].id = 1
    /\ markers[2].id = 3

\* the distance of the i-th marker held from the time asked for
DistanceOf(i) == RAbs(RSub(markers[i].timeInSeconds, call.time))

\* C26: findNearestMarker returns none when no marker is held or no marker
\* is nearer than tolerance; otherwise the marker it returns is at the
\* smallest distance of all and is the first held (the earliest added) at
\* that distance; the call leaves the markers as they were.
C26_NearestMarker ==
    /\ [](call.op = "findNearestMarker" =>
            IF \A i \in 1..Len(markers) : RLeq(call.tolerance, DistanceOf(i))
            THEN call.res = 0
            ELSE /\ call.res \in 1..Len(markers)
                 /\ RLess(DistanceOf(call.res), call.tolerance)
                 /\ \A j \in 1..Len(markers) : RLeq(DistanceOf(call.res), DistanceOf(j))
                 /\ \A j \in 1..(call.res - 1) : RLess(DistanceOf(call.res), DistanceOf(j)))
    /\ [][call'.op = "findNearestMarker" /\ call.op = "none" =>
            UNCHANGED <<markers, nextMarkerId>>]_vars

\* two markers at the same distance inside the tolerance: the first is
\* returned
C26_Witness ==
    /\ call.op = "findNearestMarker"
    /\ call.res = 1
    /\ Len(markers) >= 2
    /\ markers[1].timeInSeconds # markers[2].timeInSeconds
    /\ DistanceOf(1) = DistanceOf(2)

----------------------------------------------------------------------------
(* Further conversion and quantization properties                          *)

\* the bpm values of the events in effect at t: of the latest events at or
\* before t, of the earliest events when there is none, 120 for an empty map
BpmsInEffect(t) ==
    LET atOrBefore == {e \in Events(tempoMap) : RLeq(e.timeInSeconds, t)}
        latest == {e \in atOrBefore :
                     \A f \in atOrBefore : RLeq(f.timeInSeconds, e.timeInSeconds)}
        earliest == {e \in Events(tempoMap) :
                       \A f \in Events(tempoMap) : RLeq(e.timeInSeconds, f.timeInSeconds)}
    IN  IF tempoMap = <<>> THEN {R(120)}
        ELSE IF atOrBefore # {} THEN {e.bpm : e \in latest}
        ELSE {e.bpm : e \in earliest}

\* C27: fromSeconds(s, MusicalTicks) is s * PPQN * bpm / 60 with the bpm in
\* effect at s, while toSeconds(v, MusicalTicks) is v * 60 / bpm / PPQN with
\* the bpm in effect at time 0, whatever events follow.
C27_TickAsymmetry ==
    /\ (call.op = "convert" /\ call.to = "MusicalTicks") =>
          \E bpm \in BpmsInEffect(call.arg) :
              call.res = RDiv(RMul(RMul(call.arg, R(ppqn)), bpm), R(60))
    /\ (call.op = "roundTrip" /\ call.domain = "MusicalTicks") =>
          \E bpm \in BpmsInEffect(R(0)) :
              call.res = RDiv(RDiv(RMul(call.mid, R(60)), bpm), R(ppqn))

\* ticks counted at the bpm in effect at t were turned into seconds at
\* another bpm, the one in effect at 0
C27_Witness ==
    /\ call.op = "roundTrip"
    /\ call.domain = "MusicalTicks"
    /\ BpmsInEffect(call.t) \cap BpmsInEffect(R(0)) = {}
    /\ call.mid # R(0)
    /\ call.res # call.t

\* the bars, beats and ticks toSeconds reads from an encoded number
Decoded(value) ==
    LET encoded == Trunc(value)
    IN  [bars |-> CDiv(encoded, 1000000),
         beats |-> CDiv(CMod(encoded, 1000000), 1000),
         ticks |-> CMod(encoded, 1000)]

\* C28 as stated: with a single-event tempo map, a PPQN of 24 or more and
\* t >= 0, the number fromSeconds(t, BarsBeatsTicks) returns decodes to the
\* bars, beats and ticks of secondsToMusical(t), and converting it back
\* gives a time less than one tick duration away from t.
C28_Original ==
    (/\ call.op = "roundTrip"
     /\ call.domain = "BarsBeatsTicks"
     /\ Len(tempoMap) = 1
     /\ ppqn >= 24
     /\ RLeq(R(0), call.t))
    => LET mt == secondsToMusical(tempoMap, ppqn, call.t)
       IN  /\ Decoded(call.mid) = [bars |-> mt.bars, beats |-> mt.beats, ticks |-> mt.ticks]
           /\ RLess(RAbs(RSub(call.res, call.t)), getTickDuration(tempoMap, ppqn))

\* C29 as stated: quantizeToBeat and quantizeToBar applied, in the same
\* mode, to a time they returned give that time back, for every tempo map,
\* time and mode.
C29_Original ==
    call.op = "quantizeAgain" => call.res = call.first

\* C30 as stated: a tempo lookup gives the same event for every map that
\* addTempoChange can have built from the events now held, whatever the
\* order of the calls, events with equal times included.
C30_Original ==
    call.op = "getTempoAt" =>
        \A other \in SortByTime(tempoMap) : getTempoAt(other, call.arg) = call.res

====
